---------------------------- MODULE Spec2Model ----------------------------
(***************************************************************************)
(* Model of the synchronization engine of theset:                          *)
(*   saveShowToDatabase          src/src/lib/api/database/shows.ts         *)
(*   saveArtistToDatabase        src/unnamed/part_000                      *)
(*   fetchAndStoreArtistTracks   src/unnamed/part_000                      *)
(* Every async function is cut at its awaits: one action per continuation  *)
(* (the code between two awaits runs without interleaving in the           *)
(* single-threaded runtime).  A store request takes effect and answers in  *)
(* the action that resumes the caller.                                     *)
(*                                                                         *)
(* Nullable values are options: None is null/undefined, Some(v) a value.   *)
(* Times are milliseconds; the clock starts at Now0 after the epoch.       *)
(***************************************************************************)
EXTENDS Integers, Sequences, FiniteSets, TLC

None == << >>
Some(v) == << v >>
IsSome(o) == o # None
Val(o) == o[1]

\* ------------------------------------------------------------------ bounds
\* synchronizer invocations in a run, one after the other
NumCalls == 1
\* clock ticks of one millisecond during a run
MaxTicks == 1
\* concurrent track populations (task slots)
NumTasks == 2
\* votes one setlist entry can collect in a run
MaxVotes == 2

\* ------------------------------------------------------------------- time
MsPerHour == 1000 * 60 * 60
MsPerDay == 1000 * 60 * 60 * 24
ShowFreshHours == 24
ArtistFreshDays == 7
Now0 == 10 * MsPerDay

\* new Date(x.updated_at || 0).getTime()
lastUpdated(row) == IF IsSome(row.updated_at) THEN Val(row.updated_at) ELSE 0

\* ------------------------------------------------------------------ store
\* error results of the store client: {code, message}
PermissionDenied == [code |-> "42501", message |-> "permission denied for table"]
UniqueViolation == [code |-> "23505", message |-> "duplicate key value"]
RlsRejected == [code |-> "PGRST301", message |-> "permission denied for relation"]
Unavailable == [code |-> "08006", message |-> "connection failure"]
StoreErrors == {PermissionDenied, UniqueViolation, RlsRejected, Unavailable}

\* ------------------------------------------------------------------ shows
ShowId == "s1"
RawDate == "2025-06-01"
BadDate == "not-a-date"
OldIsoDate == "2025-01-01T00:00:00.000Z"
\* the value null of a field that is present, where it differs from an absent
\* (undefined) field: JSON drops an undefined field and writes a null one
JsNull == "<null>"

\* new Date(d).toISOString(): defined on parseable dates, RangeError otherwise
IsValidDate(d) == d \in {RawDate}
toISOString(d) == CASE d = RawDate -> "2025-06-01T00:00:00.000Z"

\* the show objects handed to saveShowToDatabase
ShowInputs ==
  { None,
    Some([id |-> None, date |-> None]),
    Some([id |-> Some(ShowId), date |-> None]),
    Some([id |-> Some(ShowId), date |-> Some(JsNull)]),
    Some([id |-> Some(ShowId), date |-> Some(RawDate)]),
    Some([id |-> Some(ShowId), date |-> Some(BadDate)]) }

\* rows the shows table may hold for ShowId before the run
ShowRows0 ==
  { None,
    Some([id |-> Some(ShowId), date |-> Some(OldIsoDate), updated_at |-> None]),
    Some([id |-> Some(ShowId), date |-> Some(OldIsoDate),
          updated_at |-> Some(Now0 - ShowFreshHours * MsPerHour + 1)]),
    Some([id |-> Some(ShowId), date |-> None, updated_at |-> Some(Now0)]) }

VARIABLES
  now,        \* the clock (ms)
  showRow,    \* shows table, row of ShowId (option)
  showCall,   \* the saveShowToDatabase invocation in progress or last returned
  otherShowCall, \* a saveShowToDatabase invocation of another caller, for the same show
  artistRow,  \* artists table, row of ArtistId (option)
  artistCall, \* the saveArtistToDatabase invocation in progress or last returned
  task,       \* per task slot: the fetchAndStoreArtistTracks invocation
  started,    \* synchronizer invocations started so far
  storedTracksData,   \* useShowDetail: the stored snapshot the track cache hands over
  allTracksData,      \* useShowDetail: { tracks }, the track list of the cache
  setlist,            \* useSongManagement: the entries, in insertion order
  selectedTrack,      \* useSongManagement: the selected track id (option)
  isAuthenticated,    \* useAuth
  anonymousVoteCount, \* useSongManagement: votes cast while anonymous
  lastOp,             \* the last operation of the show page and its outcome
  timeZone,           \* the time zone of the runtime that renders the show page
  showDetails,        \* useShowDetails(id): { show, isLoadingShow }
  effectPending,      \* the metadata effect is due: its dependencies changed
  documentMetadata,   \* useShowDetail: { title, description }
  metaEffect          \* the last run of the metadata effect: its outcome, formattedDate

showVars == << showRow, showCall >>
artistVars == << artistRow, artistCall, task >>
hookVars == << storedTracksData, allTracksData, setlist, selectedTrack, isAuthenticated,
               anonymousVoteCount, lastOp >>
metaVars == << timeZone, showDetails, effectPending, documentMetadata, metaEffect >>
vars == << now, showRow, showCall, artistRow, artistCall, task, started, hookVars, metaVars,
          otherShowCall >>

IdleArtistCall ==
  [pc |-> "idle", artist |-> None, check |-> "none", existingArtist |-> None,
   checkedAt |-> 0, artistData |-> None, upsert |-> "none", insert |-> "none",
   writes |-> << >>, spawned |-> 0, ret |-> "none", result |-> None]

IdleShowCall ==
  [pc |-> "idle", show |-> None, check |-> "none", dbShow |-> None, checkedAt |-> 0,
   showData |-> None, upsert |-> "none", insert |-> "none",
   writes |-> << >>, ret |-> "none", result |-> None]

\* .select('id, updated_at')
ShowCheckColumns(row) == [id |-> row.id, updated_at |-> row.updated_at]

\* hoursSinceUpdate < 24   (shows.ts:36-40)
ShowIsFresh(dbShow, t) ==
  (t - lastUpdated(dbShow)) < ShowFreshHours * MsPerHour

\* show.date is falsy: undefined or null
DateIsFalsy(show) == ~IsSome(show.date) \/ Val(show.date) = JsNull
\* showData (shows.ts:55-65); date: show.date && new Date(show.date).toISOString():
\* a falsy show.date is handed on as it is (undefined or null)
PrepareShowThrows(show) == ~DateIsFalsy(show) /\ ~IsValidDate(Val(show.date))
PrepareShow(show, t) ==
  [id |-> show.id,
   date |-> IF DateIsFalsy(show) THEN show.date ELSE Some(toISOString(Val(show.date))),
   updated_at |-> Some(t)]

\* the row after an upsert: the columns the payload names are written, null
\* included; a column the payload leaves undefined keeps its value (a new
\* row gets null)
UpsertShowRow(old, data) ==
  [id |-> data.id,
   date |-> IF IsSome(data.date)
            THEN (IF Val(data.date) = JsNull THEN None ELSE data.date)
            ELSE IF IsSome(old) THEN Val(old).date ELSE None,
   updated_at |-> data.updated_at]

\* data?.[0] || fallback, data being the rows the store answers (possibly none)
FirstOr(data, fallback) == IF IsSome(data) THEN Val(data) ELSE fallback


\* The caller awaits each save before it starts the next: an invocation
\* starts when the one before it has returned, and takes the place of its
\* record.  The populations triggered so far go on in the background.
InFlight(r) == r.pc \notin {"idle", "done"}
MayStart ==
  /\ ~InFlight(showCall)
  /\ ~InFlight(artistCall)
  /\ started < NumCalls

\* variant of HasId: any object passes, with an id or without
HasId_AnyObject(record) == IsSome(record)

\* !(!show || !show.id)  (shows.ts:10, part_000:11)
HasId(record) == IsSome(record) /\ IsSome(Val(record).id)

\* shows.ts:8-23  entry, validation, the lookup request
saveShowToDatabase ==
  /\ MayStart
  /\ started' = started + 1
  /\ \E show \in ShowInputs :
       IF ~HasId(show)
       THEN showCall' = [IdleShowCall EXCEPT !.pc = "done", !.show = show,
                                            !.ret = "L12", !.result = None]
       ELSE showCall' = [IdleShowCall EXCEPT !.pc = "check", !.show = show]
  /\ artistCall' = IdleArtistCall
  /\ UNCHANGED << otherShowCall, hookVars, metaVars, now, showRow, artistRow, task >>

\* a write request as the store receives it
Write(op, data) == [op |-> op, data |-> data]

\* variant of ShowOuterCatch: the outer handler lets the exception escape
ShowOuterCatch_Rethrow(r) ==
  [r EXCEPT !.pc = "threw"]

\* shows.ts:102-105  catch (error): the original show object
ShowOuterCatch(r) ==
  [r EXCEPT !.pc = "done", !.ret = "L104", !.result = r.show]

\* shows.ts:98-101  catch (saveError): the prepared record
ShowSaveCatch(r) ==
  [r EXCEPT !.pc = "done", !.ret = "L100", !.result = r.showData]

\* shows.ts:55-72  prepare the record, request the upsert
ShowPrepareAndUpsert(r) ==
  IF PrepareShowThrows(Val(r.show))
  THEN ShowOuterCatch(r)
  ELSE LET showData == PrepareShow(Val(r.show), now) IN
       [r EXCEPT !.pc = "upsert", !.showData = Some(showData),
                 !.writes = Append(r.writes, Write("upsert", showData))]

\* shows.ts:19-52  the lookup of invocation r answers: the invocation after it
ShowCheckOutcomes(r) ==
  LET dbShow == IF IsSome(showRow) THEN Some(ShowCheckColumns(Val(showRow))) ELSE None
      ok == [r EXCEPT !.check = "ok", !.dbShow = dbShow, !.checkedAt = now]
  IN  \* data and no error
      { IF IsSome(dbShow) /\ ShowIsFresh(Val(dbShow), now)
        THEN [ok EXCEPT !.pc = "done", !.ret = "L42", !.result = dbShow]
        ELSE ShowPrepareAndUpsert(ok) }
      \cup
      \* checkError, permission denied or not: logged, continue
      { ShowPrepareAndUpsert([r EXCEPT !.check = "error", !.checkedAt = now]) :
          e \in StoreErrors }
      \cup
      \* the request throws: inner catch, continue
      { ShowPrepareAndUpsert([r EXCEPT !.check = "throw", !.checkedAt = now]) }

\* shows.ts:69-101  the upsert of invocation r answers: the invocation and the
\* row of the store after it
ShowUpsertOutcomes(r) ==
  LET showData == Val(r.showData)
      row == UpsertShowRow(showRow, showData)
  IN  \* success, the store answers the row or nothing
      { [call |-> [r EXCEPT !.pc = "done", !.upsert = "ok", !.ret = "L97",
                            !.result = Some(FirstOr(IF withRow THEN Some(row) ELSE None,
                                                    showData))],
         row |-> Some(row)] : withRow \in BOOLEAN }
      \cup
      \* error: the insert-only request follows (shows.ts:74-85)
      { [call |-> [r EXCEPT !.pc = "insert", !.upsert = e.code,
                            !.writes = Append(r.writes, Write("insert", showData))],
         row |-> showRow] : e \in StoreErrors }
      \cup
      \* the request throws (shows.ts:98-101)
      { [call |-> ShowSaveCatch([r EXCEPT !.upsert = "throw"]), row |-> showRow] }

\* shows.ts:82-101  the insert-only request of invocation r answers
ShowInsertOutcomes(r) ==
  LET showData == Val(r.showData)
      row == UpsertShowRow(None, showData)
  IN  \* success: only when no row with this id exists
      { [call |-> [r EXCEPT !.pc = "done", !.insert = "ok", !.ret = "L93",
                            !.result = Some(FirstOr(IF withRow THEN Some(row) ELSE None,
                                                    showData))],
         row |-> Some(row)] : withRow \in IF showRow = None THEN BOOLEAN ELSE {} }
      \cup
      \* insertError
      { [call |-> [r EXCEPT !.pc = "done", !.insert = e.code, !.ret = "L89",
                            !.result = r.showData],
         row |-> showRow] :
          e \in { x \in StoreErrors : x = UniqueViolation => showRow # None } }
      \cup
      \* the request throws
      { [call |-> ShowSaveCatch([r EXCEPT !.insert = "throw"]), row |-> showRow] }

\* shows.ts:19-52  the lookup answers
saveShow_check ==
  /\ showCall.pc = "check"
  /\ showCall' \in ShowCheckOutcomes(showCall)
  /\ UNCHANGED << otherShowCall, hookVars, metaVars, started, now, showRow, artistVars >>

\* shows.ts:69-101  the upsert answers
saveShow_upsert ==
  /\ showCall.pc = "upsert"
  /\ \E o \in ShowUpsertOutcomes(showCall) :
       /\ showCall' = o.call
       /\ showRow' = o.row
  /\ UNCHANGED << otherShowCall, hookVars, metaVars, started, now, artistVars >>

\* shows.ts:82-101  the insert-only request answers
saveShow_insert ==
  /\ showCall.pc = "insert"
  /\ \E o \in ShowInsertOutcomes(showCall) :
       /\ showCall' = o.call
       /\ showRow' = o.row
  /\ UNCHANGED << otherShowCall, hookVars, metaVars, started, now, artistVars >>

\* A second caller saves the same show while the invocation above may be in
\* progress: its invocation goes through the same steps against the same row.
\* shows.ts:8-23
otherSaveShowToDatabase ==
  /\ otherShowCall.pc = "idle"
  /\ \E show \in { s \in ShowInputs : HasId(s) } :
       otherShowCall' = [IdleShowCall EXCEPT !.pc = "check", !.show = show]
  /\ UNCHANGED << hookVars, metaVars, started, now, showVars, artistVars >>

\* shows.ts:19-52
otherSaveShow_check ==
  /\ otherShowCall.pc = "check"
  /\ otherShowCall' \in ShowCheckOutcomes(otherShowCall)
  /\ UNCHANGED << hookVars, metaVars, started, now, showVars, artistVars >>

\* shows.ts:69-101
otherSaveShow_upsert ==
  /\ otherShowCall.pc = "upsert"
  /\ \E o \in ShowUpsertOutcomes(otherShowCall) :
       /\ otherShowCall' = o.call
       /\ showRow' = o.row
  /\ UNCHANGED << hookVars, metaVars, started, now, showCall, artistVars >>

\* shows.ts:82-101
otherSaveShow_insert ==
  /\ otherShowCall.pc = "insert"
  /\ \E o \in ShowInsertOutcomes(otherShowCall) :
       /\ otherShowCall' = o.call
       /\ showRow' = o.row
  /\ UNCHANGED << hookVars, metaVars, started, now, showCall, artistVars >>

\* ---------------------------------------------------------------- artists
ArtistId == "a1"
SpotifyId == "X123"
\* track lists: one handed in with an artist object, one held by the store
\* before the run, those answered by the external catalog
InputTracks == << "t1" >>
StoredTracks0 == << "t1", "t2" >>
CatalogTracks == << "t2", "t3" >>
\* the catalog as the external source answers it after a change
CatalogTracksLater == << "t3", "t4" >>

\* JSON.parse(JSON.stringify(tracks)): an undefined element comes back as null
JsonValue(x) == IF x = "undefined" THEN "null" ELSE x
JsonClone(tracks) == [i \in 1..Len(tracks) |-> JsonValue(tracks[i])]

\* the artist objects handed to saveArtistToDatabase
ArtistInput(sp, st, up) ==
  Some([id |-> Some(ArtistId), spotify_id |-> sp, stored_tracks |-> st, upcoming_shows |-> up])
ArtistInputs ==
  { None,
    Some([id |-> None, spotify_id |-> None, stored_tracks |-> None, upcoming_shows |-> 0]),
    ArtistInput(None, None, 0),
    ArtistInput(Some(SpotifyId), None, 0),
    ArtistInput(Some(SpotifyId), Some(InputTracks), 0),
    ArtistInput(None, None, 2) }

\* rows the artists table may hold for ArtistId before the run
ArtistRow(ua, st, sp) ==
  Some([id |-> Some(ArtistId), updated_at |-> ua, stored_tracks |-> st,
        spotify_id |-> sp, upcoming_shows |-> 1, tracks_last_updated |-> None])
AlmostStale == Some(Now0 - ArtistFreshDays * MsPerDay)
ArtistRows0 ==
  { None,
    ArtistRow(AlmostStale, Some(StoredTracks0), Some(SpotifyId)),
    ArtistRow(AlmostStale, None, Some(SpotifyId)),
    ArtistRow(Some(Now0), None, Some(SpotifyId)),
    ArtistRow(Some(Now0), Some(StoredTracks0), None),
    ArtistRow(Some(Now0), Some(<< >>), Some(SpotifyId)),
    ArtistRow(None, None, None) }

NoTask ==
  [pc |-> "none", spotifyId |-> "", existingTracks |-> None, tracksData |-> None,
   stamp |-> 0, fetches |-> 0, writes |-> << >>, store |-> "none", update |-> "none",
   ret |-> "none", result |-> None]

Tasks == 1..NumTasks

SetTask(t, r) == task' = [task EXCEPT ![t] = r]

\* .select('id, updated_at, stored_tracks, spotify_id, upcoming_shows')
ArtistCheckColumns(row) ==
  [id |-> row.id, updated_at |-> row.updated_at, stored_tracks |-> row.stored_tracks,
   spotify_id |-> row.spotify_id, upcoming_shows |-> row.upcoming_shows]

\* variant of needsUpdate: the age of the record is not looked at
needsUpdate_NoAge(artist, existingArtist, t) ==
  \/ ~IsSome(existingArtist.stored_tracks)
  \/ (IsSome(artist.spotify_id) /\ ~IsSome(existingArtist.spotify_id))
  \/ (artist.upcoming_shows # 0 /\ artist.upcoming_shows > existingArtist.upcoming_shows)

\* variant of needsUpdate: missing stored tracks do not force an update
needsUpdate_NoTracksTest(artist, existingArtist, t) ==
  \/ (t - lastUpdated(existingArtist)) > ArtistFreshDays * MsPerDay
  \/ (IsSome(artist.spotify_id) /\ ~IsSome(existingArtist.spotify_id))
  \/ (artist.upcoming_shows # 0 /\ artist.upcoming_shows > existingArtist.upcoming_shows)

\* needsUpdate (part_000:33-44); daysSinceUpdate > 7 on milliseconds
needsUpdate(artist, existingArtist, t) ==
  \/ (t - lastUpdated(existingArtist)) > ArtistFreshDays * MsPerDay
  \/ ~IsSome(existingArtist.stored_tracks)
  \/ (IsSome(artist.spotify_id) /\ ~IsSome(existingArtist.spotify_id))
  \/ (artist.upcoming_shows # 0 /\ artist.upcoming_shows > existingArtist.upcoming_shows)

\* artistData (part_000:61-76); stored_tracks only when the input carries them
PrepareArtist(artist, t) ==
  [id |-> artist.id,
   upcoming_shows |-> artist.upcoming_shows,
   spotify_id |-> artist.spotify_id,
   updated_at |-> Some(t),
   stored_tracks |-> IF IsSome(artist.stored_tracks)
                     THEN Some(JsonClone(Val(artist.stored_tracks))) ELSE None]

\* the row after an upsert: stored_tracks and tracks_last_updated are kept when
\* the payload does not carry them; spotify_id: null is written as null
UpsertArtistRow(old, data) ==
  [id |-> data.id,
   updated_at |-> data.updated_at,
   upcoming_shows |-> data.upcoming_shows,
   spotify_id |-> data.spotify_id,
   stored_tracks |-> IF IsSome(data.stored_tracks) THEN data.stored_tracks
                     ELSE IF IsSome(old) THEN Val(old).stored_tracks ELSE None,
   tracks_last_updated |-> IF IsSome(old) THEN Val(old).tracks_last_updated ELSE None]

\* error.code === '42501' || error.message.includes('permission denied')  (part_000:92)
MessageIncludesPermissionDenied(m) ==
  m \in {"permission denied for table", "permission denied for relation"}
\* variant of IsPermissionError: the code is compared with the wrong constant
IsPermissionError_WrongCode(e) == e.code = "23505"

IsPermissionError(e) == e.code = "42501" \/ MessageIncludesPermissionDenied(e.message)

\* the lowest free task slot
TaskFree(t) == task[t].pc = "none"
FreeTask == CHOOSE t \in Tasks : TaskFree(t) /\ \A u \in Tasks : u < t => ~TaskFree(u)
HasFreeTask == \E t \in Tasks : TaskFree(t)

\* part_000:138-143  entry of fetchAndStoreArtistTracks: the stored-tracks request
StartTask(spotifyId) ==
  [NoTask EXCEPT !.pc = "getStored", !.spotifyId = spotifyId]

\* part_000:9-24  entry, validation, the lookup request
saveArtistToDatabase ==
  /\ MayStart
  /\ started' = started + 1
  /\ \E artist \in ArtistInputs :
       IF ~HasId(artist)
       THEN artistCall' = [IdleArtistCall EXCEPT !.pc = "done", !.artist = artist,
                                                !.ret = "L13", !.result = None]
       ELSE artistCall' = [IdleArtistCall EXCEPT !.pc = "check", !.artist = artist]
  /\ showCall' = IdleShowCall
  /\ UNCHANGED << otherShowCall, hookVars, metaVars, now, showRow, artistRow, task >>

\* part_000:60-86  prepare the record, request the upsert
ArtistPrepareAndUpsert(r) ==
  LET artistData == PrepareArtist(Val(r.artist), now) IN
  [r EXCEPT !.pc = "upsert", !.artistData = Some(artistData),
            !.writes = Append(r.writes, Write("upsert", artistData))]

\* part_000:19-58  the lookup answers
saveArtist_check ==
  /\ artistCall.pc = "check"
  /\ \/ \* data and no error
        LET existingArtist ==
              IF IsSome(artistRow) THEN Some(ArtistCheckColumns(Val(artistRow))) ELSE None
            r == [artistCall EXCEPT !.check = "ok", !.existingArtist = existingArtist,
                                       !.checkedAt = now]
        IN  IF IsSome(existingArtist)
               /\ ~needsUpdate(Val(r.artist), Val(existingArtist), now)
            THEN artistCall' = ([r EXCEPT !.pc = "done", !.ret = "L48",
                                        !.result = existingArtist])
            ELSE artistCall' = (ArtistPrepareAndUpsert(r))
     \/ \* checkError: logged, continue
        \E e \in StoreErrors :
          artistCall' = (ArtistPrepareAndUpsert(
                         [artistCall EXCEPT !.check = "error", !.checkedAt = now]))
     \/ \* the request throws: inner catch, continue
        artistCall' = (ArtistPrepareAndUpsert(
                       [artistCall EXCEPT !.check = "throw", !.checkedAt = now]))
  /\ UNCHANGED << otherShowCall, hookVars, metaVars, started, now, artistRow, task, showVars >>

\* part_000:125-128  catch (saveError)
ArtistSaveCatch(r) ==
  [r EXCEPT !.pc = "done", !.ret = "L127", !.result = r.artistData]

\* variant of ArtistSaved: the population is never triggered
ArtistSaved_NoTrigger(r, savedArtist, t) ==
  [r EXCEPT !.pc = "done", !.ret = "L124", !.result = Some(savedArtist)]

\* variant of ArtistSaved: the population is awaited before the return
ArtistSaved_Awaited(r, savedArtist, t) ==
  IF ~IsSome(savedArtist.stored_tracks) /\ IsSome(Val(r.artistData).spotify_id)
  THEN [r EXCEPT !.pc = "awaitTracks", !.spawned = t]
  ELSE [r EXCEPT !.pc = "done", !.ret = "L124", !.result = Some(savedArtist)]

\* part_000:112-124  after a successful upsert: trigger the population, return
ArtistSaved(r, savedArtist, t) ==
  IF ~IsSome(savedArtist.stored_tracks) /\ IsSome(Val(r.artistData).spotify_id)
  THEN [r EXCEPT !.pc = "done", !.ret = "L124", !.result = Some(savedArtist),
                 !.spawned = t]
  ELSE [r EXCEPT !.pc = "done", !.ret = "L124", !.result = Some(savedArtist)]

\* part_000:83-128  the upsert answers
saveArtist_upsert ==
  /\ artistCall.pc = "upsert"
  /\ LET r == [artistCall EXCEPT !.upsert = "ok"]
         artistData == Val(r.artistData)
     IN \/ \* success, the store answers the row or nothing
           \E withRow \in BOOLEAN :
             LET row == UpsertArtistRow(artistRow, artistData)
                 savedArtist == FirstOr(IF withRow THEN Some(row) ELSE None, artistData)
                 t == IF HasFreeTask THEN FreeTask ELSE NumTasks + 1
                 r2 == ArtistSaved(r, savedArtist, t)
             IN /\ r2.spawned # 0 => HasFreeTask   \* a task slot is left
                /\ artistRow' = Some(row)
                /\ artistCall' = (r2)
                /\ IF r2.spawned # 0
                   THEN SetTask(r2.spawned, StartTask(Val(artistData.spotify_id)))
                   ELSE UNCHANGED task
        \/ \* error: insert-only on a permission error, else the prepared record
           \E e \in StoreErrors :
             /\ IF IsPermissionError(e)
                THEN artistCall' = ([r EXCEPT !.pc = "insert", !.upsert = e.code,
                                     !.writes = Append(r.writes, Write("insert", artistData))])
                ELSE artistCall' = ([r EXCEPT !.pc = "done", !.upsert = e.code,
                                     !.ret = "L109", !.result = r.artistData])
             /\ UNCHANGED << artistRow, task >>
        \/ \* the request throws
           /\ artistCall' = (ArtistSaveCatch([r EXCEPT !.upsert = "throw"]))
           /\ UNCHANGED << artistRow, task >>
  /\ UNCHANGED << otherShowCall, hookVars, metaVars, started, now, showVars >>

\* part_000:95-107, 125-128  the insert-only request answers
saveArtist_insert ==
  /\ artistCall.pc = "insert"
  /\ LET r == artistCall
         artistData == Val(r.artistData)
     IN \/ \* success: only when no row with this id exists
           /\ artistRow = None
           /\ \E withRow \in BOOLEAN :
                LET row == UpsertArtistRow(None, artistData) IN
                /\ artistRow' = Some(row)
                /\ artistCall' = ([r EXCEPT !.pc = "done", !.insert = "ok", !.ret = "L106",
                                   !.result = Some(FirstOr(IF withRow THEN Some(row) ELSE None,
                                                           artistData))])
        \/ \* insertError
           \E e \in StoreErrors :
             /\ e = UniqueViolation => artistRow # None
             /\ artistCall' = ([r EXCEPT !.pc = "done", !.insert = e.code, !.ret = "L102",
                                !.result = r.artistData])
             /\ UNCHANGED artistRow
        \/ \* the request throws
           /\ artistCall' = (ArtistSaveCatch([r EXCEPT !.insert = "throw"]))
           /\ UNCHANGED artistRow
  /\ UNCHANGED << otherShowCall, hookVars, metaVars, started, now, task, showVars >>

\* ------------------------------------------------- fetchAndStoreArtistTracks
\* answers of getArtistAllTracks: null, no track list, an empty list, a catalog
CatalogAnswers ==
  { None, Some([tracks |-> None]), Some([tracks |-> Some(<< >>)]),
    Some([tracks |-> Some(CatalogTracks)]), Some([tracks |-> Some(CatalogTracksLater)]) }

\* variant of NoTracksFound: an empty list counts as tracks found
NoTracksFound_EmptyListPasses(tracksData) ==
  \/ ~IsSome(tracksData)
  \/ ~IsSome(Val(tracksData).tracks)

\* !tracksData || !tracksData.tracks || tracksData.tracks.length === 0  (part_000:153)
NoTracksFound(tracksData) ==
  \/ ~IsSome(tracksData)
  \/ ~IsSome(Val(tracksData).tracks)
  \/ Len(Val(Val(tracksData).tracks)) = 0

\* getStoredTracksForArtist(artistId) of ./tracks: the snapshot the artists
\* row holds, null when there is none
getStoredTracksForArtist(row) ==
  IF IsSome(row) THEN Val(row).stored_tracks ELSE None

\* variant of HaveTracks: the length test is inverted
HaveTracks_Inverted(existingTracks) ==
  IsSome(existingTracks) /\ Len(Val(existingTracks)) < 0

\* existingTracks && existingTracks.length > 0  (part_000:145)
HaveTracks(existingTracks) ==
  IsSome(existingTracks) /\ Len(Val(existingTracks)) > 0

\* updateArtistStoredTracks(artistId, tracks) of ./tracks: the snapshot is
\* written whole into the row of the artist
updateArtistStoredTracks(row, tracks) ==
  IF IsSome(row) THEN Some([Val(row) EXCEPT !.stored_tracks = Some(tracks)]) ELSE None

\* variant of UpdateArtistTracksRow: the tracks are added to the stored ones
UpdateArtistTracksRow_Incremental(row, tracks, t) ==
  IF IsSome(row)
  THEN Some([Val(row) EXCEPT
               !.stored_tracks =
                  Some((IF IsSome(Val(row).stored_tracks)
                        THEN Val(Val(row).stored_tracks) ELSE << >>) \o tracks),
               !.updated_at = Some(t), !.tracks_last_updated = Some(t)])
  ELSE None

\* .update({tracks_last_updated, updated_at, stored_tracks}).eq('id', artistId)
UpdateArtistTracksRow(row, tracks, t) ==
  IF IsSome(row)
  THEN Some([Val(row) EXCEPT !.stored_tracks = Some(tracks), !.updated_at = Some(t),
                             !.tracks_last_updated = Some(t)])
  ELSE None

\* part_000:138-143  an invocation from outside saveArtistToDatabase (the
\* track cache's load and refetch)
fetchAndStoreArtistTracks(t) ==
  /\ HasFreeTask /\ t = FreeTask
  /\ SetTask(t, StartTask(SpotifyId))
  /\ UNCHANGED << otherShowCall, hookVars, metaVars, started, now, artistRow, artistCall, showVars >>

\* part_000:143-151, 183-186  the stored-tracks lookup answers: dedup guard,
\* else the request to the external catalog; or the lookup throws
task_getStored(t) ==
  /\ task[t].pc = "getStored"
  /\ \/ LET existingTracks == getStoredTracksForArtist(artistRow)
            r == [task[t] EXCEPT !.existingTracks = existingTracks]
        IN IF HaveTracks(existingTracks)
           THEN SetTask(t, [r EXCEPT !.pc = "done", !.ret = "L147",
                                     !.result = existingTracks])
           ELSE SetTask(t, [r EXCEPT !.pc = "fetch", !.fetches = r.fetches + 1])
     \/ \* getStoredTracksForArtist throws: catch (error), null
        SetTask(t, [task[t] EXCEPT !.pc = "done", !.ret = "L185", !.result = None])
  /\ UNCHANGED << otherShowCall, hookVars, metaVars, started, now, artistRow, artistCall, showVars >>

\* part_000:151-165, 183-186  the external catalog answers
task_fetch(t) ==
  /\ task[t].pc = "fetch"
  /\ \/ \E tracksData \in CatalogAnswers :
          LET r == [task[t] EXCEPT !.tracksData = tracksData] IN
          IF NoTracksFound(tracksData)
          THEN SetTask(t, [r EXCEPT !.pc = "done", !.ret = "L155", !.result = None])
          ELSE SetTask(t, [r EXCEPT !.pc = "store",
                                    !.writes = Append(r.writes, "updateArtistStoredTracks")])
     \/ \* getArtistAllTracks throws
        SetTask(t, [task[t] EXCEPT !.pc = "done", !.ret = "L185", !.result = None])
  /\ UNCHANGED << otherShowCall, hookVars, metaVars, started, now, artistRow, artistCall, showVars >>

\* variant of TracksDbCatch: the fetched tracks are dropped with the failed write
TracksDbCatch_ReturnsNull(r) ==
  [r EXCEPT !.pc = "done", !.ret = "L181", !.result = None]

\* part_000:179-182  catch (dbError): the fetched tracks all the same
TracksDbCatch(r) ==
  [r EXCEPT !.pc = "done", !.ret = "L181", !.result = Val(r.tracksData).tracks]

\* part_000:165-175, 179-182  updateArtistStoredTracks answers; the update request
task_store(t) ==
  /\ task[t].pc = "store"
  /\ LET r == task[t]
         tracks == Val(Val(r.tracksData).tracks)
         tracksAsJson == JsonClone(tracks)
         next == [r EXCEPT !.pc = "update", !.stamp = now,
                           !.writes = Append(r.writes, "update")]
     IN \/ \* written
           /\ artistRow' = updateArtistStoredTracks(artistRow, tracksAsJson)
           /\ SetTask(t, [next EXCEPT !.store = "ok"])
        \/ \* not written, no exception
           /\ UNCHANGED artistRow
           /\ SetTask(t, [next EXCEPT !.store = "error"])
        \/ \* throws: catch (dbError)
           /\ UNCHANGED artistRow
           /\ SetTask(t, TracksDbCatch([r EXCEPT !.store = "throw"]))
  /\ UNCHANGED << otherShowCall, hookVars, metaVars, started, now, artistCall, showVars >>

\* part_000:168-182  the update answers (its error result is not inspected)
task_update(t) ==
  /\ task[t].pc = "update"
  /\ LET r == task[t]
         tracks == Val(Val(r.tracksData).tracks)
         tracksAsJson == JsonClone(tracks)
     IN \/ \* written
           /\ artistRow' = UpdateArtistTracksRow(artistRow, tracksAsJson, r.stamp)
           /\ SetTask(t, [r EXCEPT !.pc = "done", !.update = "ok", !.ret = "L178",
                                    !.result = Some(tracks)])
        \/ \* error result
           /\ UNCHANGED artistRow
           /\ SetTask(t, [r EXCEPT !.pc = "done", !.update = "error", !.ret = "L178",
                                    !.result = Some(tracks)])
        \/ \* throws: catch (dbError)
           /\ UNCHANGED artistRow
           /\ SetTask(t, TracksDbCatch([r EXCEPT !.update = "throw"]))
  /\ UNCHANGED << otherShowCall, hookVars, metaVars, started, now, artistCall, showVars >>

\* ------------------------------------------------------------ useShowDetail
\* tracks of the catalog as the show page holds them
Track(id) == [id |-> id, name |-> id]
T1 == Track("t1")
T2 == Track("t2")
T3 == Track("t3")
\* a second track under the id of T2
T2Remix == [id |-> "t2", name |-> "t2 (remix)"]

\* storedTracksData (use-show-detail.ts:99): none, a snapshot, a snapshot that
\* holds an id twice
StoredTracksInputs == { << >>, << T1, T2, T3 >>, << T2, T1, T2Remix >> }
\* tracks (use-show-detail.ts:94), held in allTracksData (line 105)
TracksInputs == { << >>, << T1, T2 >> }
\* a setlist entry
Entry(id, votes) == [id |-> id, votes |-> votes]
\* initialSongs (use-show-detail.ts:98, 116)
InitialSongsInputs == { << >>, << Entry("t2", 1) >> }
\* trackId of handleAddSongClick(trackId?): undefined, ids of tracks, an unknown id
TrackIdInputs == { None, Some("t1"), Some("t3"), Some("zz") }
\* values of setSelectedTrack: '' (none), ids of tracks
SelectedInputs == { None, Some("t1"), Some("t2") }
\* songId of handleVote(songId)
SongIdInputs == { "t1", "t2", "zz" }

\* the anonymous quota of votes per show
AnonymousQuota == 2

NoOp == [name |-> "none"]
\* handleAddSongClick(trackId): the list handed to handleAddSong, if it was called
AddOp(trackId, arg) == [name |-> "addSong", trackId |-> trackId, arg |-> arg]
VoteOp(songId, outcome, login) ==
  [name |-> "vote", songId |-> songId, outcome |-> outcome, login |-> login]

\* new Set((setlist || []).map(song => song.id))
setlistIds(sl) == { sl[i].id : i \in 1..Len(sl) }

\* array.find(t => t.id === id): the first such track, undefined when none
find(list, id) ==
  IF \E i \in 1..Len(list) : list[i].id = id
  THEN Some(list[CHOOSE i \in 1..Len(list) :
                   /\ list[i].id = id
                   /\ \A j \in 1..(i - 1) : list[j].id # id])
  ELSE None

\* array.filter(keep)
RECURSIVE filter(_, _)
filter(list, keepIds) ==
  IF list = << >> THEN << >>
  ELSE IF Head(list).id \in keepIds
       THEN << Head(list) >> \o filter(Tail(list), keepIds)
       ELSE filter(Tail(list), keepIds)

\* getAvailableTracks(setlist) of useArtistTracks: the fallback complement on
\* the track list of the cache
getAvailableTracks(list, sl) ==
  filter(list, { list[i].id : i \in 1..Len(list) } \ setlistIds(sl))

\* variant of availableTracks: the stored tracks, whatever the setlist holds
availableTracks_Unfiltered(stored, list, sl) ==
  IF Len(stored) > 0 THEN stored ELSE getAvailableTracks(list, sl)

\* availableTracks (use-show-detail.ts:119-130)
availableTracks(stored, list, sl) ==
  IF Len(stored) > 0
  THEN filter(stored, { stored[i].id : i \in 1..Len(stored) } \ setlistIds(sl))
  ELSE getAvailableTracks(list, sl)

\* handleAddSong(allTracksData) of useSongManagement: the selected track, when
\* the list holds it and the setlist does not, is appended with no votes
handleAddSong(data, sl, selected) ==
  IF ~IsSome(selected) THEN sl
  ELSE LET track == find(data.tracks, Val(selected)) IN
       IF ~IsSome(track) \/ Val(track).id \in setlistIds(sl) THEN sl
       ELSE Append(sl, Entry(Val(track).id, 0))

\* setSelectedTrack(id)
setSelectedTrack ==
  /\ \E id \in SelectedInputs : selectedTrack' = id
  /\ lastOp' = [name |-> "select"]
  /\ UNCHANGED << storedTracksData, allTracksData, setlist, isAuthenticated, anonymousVoteCount >>
  /\ UNCHANGED << otherShowCall, metaVars, now, started, showVars, artistVars >>

\* variant of AddSongClick: the add goes ahead without a track to use
AddSongClick_NoGuard(trackId, stored, list, sl, selected) ==
  [setlist |-> handleAddSong([tracks |-> list], sl, selected), arg |-> Some(list)]

\* the body of handleAddSongClick (use-show-detail.ts:133-151): the setlist
\* after it and the list handed to handleAddSong, if it was called
AddSongClick(trackId, stored, list, sl, selected) ==
  LET trackToUse == IF IsSome(trackId) THEN trackId ELSE selected
  IN IF ~IsSome(trackToUse)
     THEN [setlist |-> sl, arg |-> None]
     ELSE IF Len(stored) > 0 /\ IsSome(find(stored, Val(trackToUse)))
          THEN [setlist |-> handleAddSong([tracks |-> stored], sl, selected),
                arg |-> Some(stored)]
          ELSE [setlist |-> handleAddSong([tracks |-> list], sl, selected),
                arg |-> Some(list)]

\* handleAddSongClick(trackId?)  (use-show-detail.ts:133-151)
handleAddSongClick ==
  /\ \E trackId \in TrackIdInputs :
       LET r == AddSongClick(trackId, storedTracksData, allTracksData.tracks, setlist,
                            selectedTrack) IN
       /\ setlist' = r.setlist
       /\ lastOp' = AddOp(trackId, r.arg)
  /\ UNCHANGED << storedTracksData, allTracksData, selectedTrack, isAuthenticated,
                  anonymousVoteCount >>
  /\ UNCHANGED << otherShowCall, metaVars, now, started, showVars, artistVars >>

\* the index of the entry of songId, 0 when the setlist has none
EntryIndex(sl, songId) ==
  IF songId \in setlistIds(sl)
  THEN CHOOSE i \in 1..Len(sl) : sl[i].id = songId /\ \A j \in 1..(i - 1) : sl[j].id # songId
  ELSE 0

\* variant of QuotaExhausted: the quota binds authenticated sessions too
QuotaExhausted_EveryoneBound(authenticated, count) == count >= AnonymousQuota

\* the anonymous quota for this show and session is used up
QuotaExhausted(authenticated, count) == ~authenticated /\ count >= AnonymousQuota

\* variant of CastVote: the vote goes to every entry
CastVote_AllEntries(sl, i) ==
  [j \in 1..Len(sl) |-> [sl[j] EXCEPT !.votes = sl[j].votes + 1]]

\* the entry's vote count goes up by one
CastVote(sl, i) == [sl EXCEPT ![i].votes = sl[i].votes + 1]

\* handleVote(songId) of useSongManagement: the quota check of an anonymous
\* caller first (rejection and login()), then the increment
handleVote ==
  /\ \E songId \in SongIdInputs :
       LET i == EntryIndex(setlist, songId) IN
       IF QuotaExhausted(isAuthenticated, anonymousVoteCount)
       THEN /\ lastOp' = VoteOp(songId, "QuotaExceeded", TRUE)
            /\ UNCHANGED << setlist, anonymousVoteCount >>
       ELSE IF i = 0
            THEN /\ lastOp' = VoteOp(songId, "NotFound", FALSE)
                 /\ UNCHANGED << setlist, anonymousVoteCount >>
            ELSE /\ setlist[i].votes < MaxVotes
                 /\ setlist' = CastVote(setlist, i)
                 /\ anonymousVoteCount' =
                      IF isAuthenticated THEN anonymousVoteCount ELSE anonymousVoteCount + 1
                 /\ lastOp' = VoteOp(songId, "ok", FALSE)
  /\ UNCHANGED << storedTracksData, allTracksData, selectedTrack, isAuthenticated >>
  /\ UNCHANGED << otherShowCall, metaVars, now, started, showVars, artistVars >>

\* login() of useAuth completes: the session is authenticated
login ==
  /\ ~isAuthenticated
  /\ isAuthenticated' = TRUE
  /\ lastOp' = [name |-> "login"]
  /\ UNCHANGED << storedTracksData, allTracksData, setlist, selectedTrack, anonymousVoteCount >>
  /\ UNCHANGED << otherShowCall, metaVars, now, started, showVars, artistVars >>

\* ------------------------------------------- useShowDetail: document metadata
\* time zones of the runtime: toLocaleDateString renders in the local zone
TimeZones == { "UTC", "America/Los_Angeles" }
\* a value that cannot be converted to a string or a date (a Symbol): the
\* conversion throws a TypeError
SymbolValue == "Symbol()"
Artists ==
  { None, Some([name |-> Some("Muse")]), Some([name |-> Some(SymbolValue)]) }
Venues ==
  { None,
    Some([name |-> Some("The Hall"), city |-> Some("Austin"), state |-> Some("TX")]),
    Some([name |-> Some("The Hall"), city |-> Some("Austin"), state |-> None]),
    Some([name |-> None, city |-> Some(""), state |-> Some("TX")]) }
\* show.date: absent, '', a date, a text that is no date, a Symbol
ShowDates == { None, Some(""), Some(RawDate), Some(BadDate), Some(SymbolValue) }
\* show of useShowDetails(id) (use-show-detail.ts:16-22): undefined or a show
ShowDetailInputs ==
  { None } \cup
  { Some([artist |-> a, venue |-> v, date |-> d]) :
      a \in Artists, v \in Venues, d \in ShowDates }

\* the truthiness of an optional string: undefined, null and '' are falsy
Truthy(o) == IsSome(o) /\ Val(o) # ""
\* o || fallback
OrElse(o, fallback) == IF Truthy(o) THEN Val(o) ELSE fallback
\* record?.field
OptField(record, field) == IF IsSome(record) THEN Val(record)[field] ELSE None

\* new Date(d) throws on a Symbol; a template literal throws on a Symbol
ToPrimitiveThrows(v) == v = SymbolValue
\* showDate.toLocaleDateString('en-US', {weekday: 'short', month: 'short',
\* day: 'numeric', year: 'numeric'}): midnight UTC rendered in the local zone;
\* an invalid date renders as 'Invalid Date'
toLocaleDateString(d, tz) ==
  IF ~IsValidDate(d) THEN "Invalid Date"
  ELSE CASE d = RawDate /\ tz = "UTC" -> "Sun, Jun 1, 2025"
         [] d = RawDate /\ tz = "America/Los_Angeles" -> "Sat, May 31, 2025"

\* variant of FormatShowDate: the date is formatted without the validity test
FormatShowDate_Unchecked(date, tz) ==
  IF ~Truthy(date) \/ ToPrimitiveThrows(Val(date)) THEN "TBD"
  ELSE toLocaleDateString(Val(date), tz)

\* formattedDate (use-show-detail.ts:34-53)
FormatShowDate(date, tz) ==
  IF ~Truthy(date) THEN "TBD"
  ELSE IF ToPrimitiveThrows(Val(date)) THEN "TBD"
  ELSE IF IsValidDate(Val(date)) THEN toLocaleDateString(Val(date), tz)
  ELSE "TBD"

\* venueLocation (use-show-detail.ts:30-32)
VenueLocation(venue) ==
  LET venueCity == OrElse(OptField(venue, "city"), "")
      venueState == OrElse(OptField(venue, "state"), "")
  IN IF venueCity # "" /\ venueState # ""
     THEN venueCity \o ", " \o venueState
     ELSE IF venueCity # "" THEN venueCity
     ELSE IF venueState # "" THEN venueState
     ELSE "Location"

\* the metadata of the catch at use-show-detail.ts:62-67
FallbackMetadata ==
  [title |-> "Show Details | TheSet",
   description |-> "Vote on setlists for upcoming concerts and shows on TheSet."]

NoMetaEffect == [outcome |-> "none", formattedDate |-> None]

\* catch (error) of the effect (use-show-detail.ts:62-67)
MetadataCatch(formattedDate, metadata) ==
  [effect |-> [outcome |-> "fallback", formattedDate |-> Some(formattedDate)],
   metadata |-> FallbackMetadata]

\* the body of the effect (use-show-detail.ts:26-69) on { show, isLoadingShow }:
\* the run it makes and the metadata after it
DocumentMetadata(details, tz, metadata) ==
  IF ~IsSome(details.show) \/ details.isLoadingShow
  THEN [effect |-> [outcome |-> "skipped", formattedDate |-> None], metadata |-> metadata]
  ELSE LET show == Val(details.show)
           artistName == OrElse(OptField(show.artist, "name"), "Artist")
           venueName == OrElse(OptField(show.venue, "name"), "Venue")
           venueLocation == VenueLocation(show.venue)
           formattedDate == FormatShowDate(show.date, tz)
       IN IF ToPrimitiveThrows(artistName)
          THEN MetadataCatch(formattedDate, metadata)
          ELSE [effect |-> [outcome |-> "set", formattedDate |-> Some(formattedDate)],
                metadata |->
                  [title |-> "TheSet | " \o artistName \o " at " \o venueName \o " in "
                             \o venueLocation \o " | " \o formattedDate,
                   description |-> "Vote on " \o artistName
                             \o "'s setlist for their show at " \o venueName \o " in "
                             \o venueLocation \o " on " \o formattedDate
                             \o ". Influence what songs they'll play live!"]]

\* useShowDetails(id) hands over a new { show, isLoadingShow }: the page
\* renders again and the effect is due (the runtime runs the effect of a
\* render before it renders again)
useShowDetails ==
  /\ ~effectPending
  /\ \E s \in ShowDetailInputs, l \in BOOLEAN :
       /\ [show |-> s, isLoadingShow |-> l] # showDetails
       /\ showDetails' = [show |-> s, isLoadingShow |-> l]
  /\ effectPending' = TRUE
  /\ UNCHANGED << timeZone, documentMetadata, metaEffect >>
  /\ UNCHANGED << otherShowCall, hookVars, now, started, showVars, artistVars >>

\* useEffect(() => {...}, [show, isLoadingShow])  (use-show-detail.ts:25-70)
useEffect_documentMetadata ==
  /\ effectPending
  /\ LET r == DocumentMetadata(showDetails, timeZone, documentMetadata) IN
       /\ documentMetadata' = r.metadata
       /\ metaEffect' = r.effect
  /\ effectPending' = FALSE
  /\ UNCHANGED << timeZone, showDetails >>
  /\ UNCHANGED << otherShowCall, hookVars, now, started, showVars, artistVars >>

\* the page before useShowDetails answers (use-show-detail.ts:9-12)
MetaIdle ==
  /\ timeZone = "UTC"
  /\ showDetails = [show |-> None, isLoadingShow |-> TRUE]
  /\ effectPending = FALSE
  /\ documentMetadata = [title |-> "", description |-> ""]
  /\ metaEffect = NoMetaEffect

\* the show page before it is mounted
HookIdle ==
  /\ storedTracksData = << >>
  /\ allTracksData = [tracks |-> << >>]
  /\ setlist = << >>
  /\ selectedTrack = None
  /\ isAuthenticated = FALSE
  /\ anonymousVoteCount = 0
  /\ lastOp = NoOp

\* the clock advances
Tick ==
  /\ now < Now0 + MaxTicks
  /\ now' = now + 1
  /\ UNCHANGED << otherShowCall, hookVars, metaVars, started, showVars, artistVars >>

Idle ==
  /\ now = Now0
  /\ started = 0
  /\ showCall = IdleShowCall
  /\ otherShowCall = IdleShowCall
  /\ artistCall = IdleArtistCall
  /\ task = [t \in Tasks |-> NoTask]

InitShow ==
  /\ Idle
  /\ HookIdle
  /\ MetaIdle
  /\ showRow \in ShowRows0
  /\ artistRow = None

InitArtist ==
  /\ Idle
  /\ HookIdle
  /\ MetaIdle
  /\ showRow = None
  /\ artistRow \in ArtistRows0

Init == InitShow \/ InitArtist

NextShow ==
  \/ Tick
  \/ saveShowToDatabase
  \/ saveShow_check
  \/ saveShow_upsert
  \/ saveShow_insert

TaskSteps ==
  \/ \E t \in Tasks : task_getStored(t)
  \/ \E t \in Tasks : task_fetch(t)
  \/ \E t \in Tasks : task_store(t)
  \/ \E t \in Tasks : task_update(t)

NextArtist ==
  \/ Tick
  \/ saveArtistToDatabase
  \/ saveArtist_check
  \/ saveArtist_upsert
  \/ saveArtist_insert
  \/ TaskSteps

NextTracks ==
  \/ Tick
  \/ \E t \in Tasks : fetchAndStoreArtistTracks(t)
  \/ TaskSteps

Next == NextShow \/ NextArtist

\* the show page mounted: useShowDetail(id) with the tracks of the cache
InitHook ==
  /\ Idle
  /\ showRow = None
  /\ artistRow = None
  /\ storedTracksData \in StoredTracksInputs
  /\ allTracksData \in { [tracks |-> list] : list \in TracksInputs }
  /\ setlist \in InitialSongsInputs
  /\ selectedTrack = None
  /\ isAuthenticated \in BOOLEAN
  /\ anonymousVoteCount = 0
  /\ lastOp = NoOp
  /\ MetaIdle

NextHook ==
  \/ setSelectedTrack
  \/ handleAddSongClick
  \/ handleVote
  \/ login

\* the show page mounted in some time zone: the first run of the effect is due
InitMeta ==
  /\ Idle
  /\ HookIdle
  /\ showRow = None
  /\ artistRow = None
  /\ timeZone \in TimeZones
  /\ showDetails \in { [show |-> None, isLoadingShow |-> TRUE],
                       [show |-> None, isLoadingShow |-> FALSE] }
  /\ effectPending = TRUE
  /\ documentMetadata = [title |-> "", description |-> ""]
  /\ metaEffect = NoMetaEffect

NextMeta ==
  \/ useShowDetails
  \/ useEffect_documentMetadata

\* the document metadata of the show page
SpecMeta == InitMeta /\ [][NextMeta]_vars
NextShowOverlap ==
  \/ NextShow
  \/ otherSaveShowToDatabase
  \/ otherSaveShow_check
  \/ otherSaveShow_upsert
  \/ otherSaveShow_insert

\* overlapping invocations of saveShowToDatabase for one show
SpecShowOverlap == InitShow /\ [][NextShowOverlap]_vars
\* saveShowToDatabase alone
SpecShow == InitShow /\ [][NextShow]_vars
\* saveArtistToDatabase and the populations it triggers
SpecArtist == InitArtist /\ [][NextArtist]_vars
\* overlapping invocations of fetchAndStoreArtistTracks
SpecTracks == InitArtist /\ [][NextTracks]_vars
\* both synchronizers
Spec == Init /\ [][Next]_vars
\* the show page: selection, addSong, vote
SpecHook == InitHook /\ [][NextHook]_vars
\* saveArtistToDatabase together with an invocation of fetchAndStoreArtistTracks
\* from outside it (the load of the show page, started first: it takes effect
\* only when its lookup is served), on an artist the store holds without
\* tracks or not at all
InitCatalog ==
  /\ InitArtist
  /\ artistRow \in {None, ArtistRow(Some(Now0), None, Some(SpotifyId))}
NextCatalog ==
  \/ saveArtistToDatabase
  \/ saveArtist_check
  \/ saveArtist_upsert
  \/ saveArtist_insert
  \/ fetchAndStoreArtistTracks(1)
  \/ TaskSteps
SpecCatalog == InitCatalog /\ [][NextCatalog]_vars

\* saveArtistToDatabase and its populations, every request answered in the
\* end: the runtime resumes each invocation whose request has been answered,
\* and the store and the catalog answer every request (with a result, an
\* error or an exception)
NextPopulate ==
  \/ saveArtistToDatabase
  \/ saveArtist_check
  \/ saveArtist_upsert
  \/ saveArtist_insert
  \/ TaskSteps
FairPopulate ==
  /\ WF_vars(saveArtist_check)
  /\ WF_vars(saveArtist_upsert)
  /\ WF_vars(saveArtist_insert)
  /\ \A t \in Tasks :
       /\ WF_vars(task_getStored(t))
       /\ WF_vars(task_fetch(t))
       /\ WF_vars(task_store(t))
       /\ WF_vars(task_update(t))
SpecPopulate == InitArtist /\ [][NextPopulate]_vars /\ FairPopulate

\* ================================================================ claims
ShowFound(r) == r.check = "ok" /\ IsSome(r.dbShow)
ShowAge(r) == r.checkedAt - lastUpdated(Val(r.dbShow))
ArtistFound(r) == r.check = "ok" /\ IsSome(r.existingArtist)
ArtistAge(r) == r.checkedAt - lastUpdated(Val(r.existingArtist))
Returned(r) == r.pc = "done"
\* the first write of the invocation is an upsert of record data
UpsertAttempted(r, data) ==
  Len(r.writes) >= 1 /\ r.writes[1] = Write("upsert", Val(data))
\* error codes that are not a permission error under either test of the code
OtherErrorCodes == {"23505", "08006"}

\* after a 42501 on the upsert: the writes are the upsert and one insert of the
\* same prepared record, and a failed insert returns the prepared record
RetriedOnce(r, data) ==
  r.upsert = "42501" =>
    /\ r.writes = << Write("upsert", Val(data)), Write("insert", Val(data)) >>
    /\ Returned(r) => r.insert # "none"
    /\ Returned(r) /\ r.insert # "ok" => r.result = data

\* C1: for saveShowToDatabase and saveArtistToDatabase, an upsert answered
\* with error 42501 is followed by exactly one insert-only write of the same
\* prepared record; if that insert fails too the prepared record is returned;
\* no invocation issues a third write.
C1_PermissionDeniedRetriesOnce ==
    /\ RetriedOnce(showCall, showCall.showData)
    /\ RetriedOnce(artistCall, artistCall.artistData)
    /\ Len(showCall.writes) <= 2
    /\ Len(artistCall.writes) <= 2

C1_Witness ==
    /\ Returned(artistCall)
    /\ artistCall.upsert = "42501"
    /\ artistCall.insert \in {"42501", "23505", "throw"}
    /\ artistCall.result = artistCall.artistData

\* after an error that is no permission error: the upsert stays the only
\* write and the prepared record is returned
NotRetried(r, data) ==
  r.upsert \in OtherErrorCodes =>
    /\ r.writes = << Write("upsert", Val(data)) >>
    /\ Returned(r) /\ r.result = data

\* C2: for saveShowToDatabase and saveArtistToDatabase, an upsert answered
\* with an error other than permission-denied is followed by no insert-only
\* retry, and the prepared record is returned.
C2_NoRetryOnOtherError ==
    /\ NotRetried(showCall, showCall.showData)
    /\ NotRetried(artistCall, artistCall.artistData)

\* C3: for every input with an id and every outcome (answer, error result,
\* exception) of the lookup, the upsert and the insert, both functions end by
\* returning a record with the id of the input; no exception escapes and no
\* invocation is left without a continuation.
NeverFails(r, input, pending) ==
  /\ r.pc # "threw"
  /\ r.pc \in {"idle", "done"} \/ pending
  /\ Returned(r) /\ HasId(input) =>
       /\ IsSome(r.result)
       /\ Val(r.result).id = Val(input).id
C3_NeverFailsTheReadPath ==
    /\ NeverFails(showCall, showCall.show,
                  \/ ENABLED saveShow_check
                  \/ ENABLED saveShow_upsert
                  \/ ENABLED saveShow_insert)
    /\ NeverFails(artistCall, artistCall.artist,
                  \/ ENABLED saveArtist_check
                  \/ ENABLED saveArtist_upsert
                  \/ ENABLED saveArtist_insert)

C3_Witness ==
    /\ Returned(showCall)
    /\ showCall.check = "throw"
    /\ showCall.ret = "L104"
    /\ showCall.result = showCall.show

\* the stored-tracks lookup of the invocation that ends as r was answered (it
\* did not throw)
LookupAnswered(r) == ~(r.ret = "L185" /\ r.fetches = 0)

\* C4: when the stored-tracks lookup of fetchAndStoreArtistTracks ends while
\* the store holds a non-empty snapshot, the invocation returns, has not
\* invoked the external catalog and has written nothing; it returns that
\* snapshot when the lookup was answered.
C4_DedupGuard ==
  [][\A t \in Tasks :
       (/\ task[t].pc = "getStored"
        /\ task'[t] # task[t]
        /\ IsSome(artistRow)
        /\ IsSome(Val(artistRow).stored_tracks)
        /\ Len(Val(Val(artistRow).stored_tracks)) > 0)
       => /\ task'[t].pc = "done"
          /\ LookupAnswered(task'[t]) => task'[t].result = Val(artistRow).stored_tracks
          /\ task'[t].fetches = 0
          /\ task'[t].writes = << >>
          /\ artistRow' = artistRow]_vars

C4_Witness ==
  \E t \in Tasks :
    /\ task[t].pc = "done"
    /\ task[t].ret = "L147"
    /\ task[t].result = Some(StoredTracks0)
    /\ task[t].fetches = 0

\* the invocations that have called the external catalog and not yet returned
Fetching == { t \in Tasks : task[t].pc \in {"fetch", "store", "update"} }

\* C5: while no snapshot is stored for the artist, at most one of the
\* overlapping invocations of fetchAndStoreArtistTracks has invoked the
\* external catalog.
C5_NoRedundantConcurrentFetch ==
  ~HaveTracks(getStoredTracksForArtist(artistRow)) => Cardinality(Fetching) <= 1

\* an artist found in the store, older than the threshold, without stored
\* tracks, synced from a record that carries the catalog id and no tracks
StaleNoTracks(r) ==
  /\ ArtistFound(r)
  /\ ArtistAge(r) > ArtistFreshDays * MsPerDay
  /\ ~IsSome(Val(r.existingArtist).stored_tracks)
  /\ IsSome(Val(r.artist).spotify_id)
  /\ ~IsSome(Val(r.artist).stored_tracks)

\* C6 as stated: such a sync always ends with the artist written and the
\* population triggered.
C6_AlwaysRefreshAndPopulate ==
    StaleNoTracks(artistCall) /\ Returned(artistCall)
      => artistCall.upsert = "ok" /\ artistCall.spawned # 0

\* C6 (amended): such a sync always requests the refresh upsert; when the
\* upsert succeeds and the resulting record has no stored tracks, the
\* population is triggered for the catalog id of the synced record; no
\* invocation triggers a population without a successful upsert before it.
C6_RefreshThenPopulate ==
    LET r == artistCall IN
    /\ StaleNoTracks(r) =>
         /\ r.ret # "L48"
         /\ UpsertAttempted(r, r.artistData)
         /\ (Returned(r) /\ r.upsert = "ok" /\ ~IsSome(Val(r.result).stored_tracks))
              => /\ r.spawned # 0
                 /\ task[r.spawned].pc # "none"
                 /\ task[r.spawned].spotifyId = Val(Val(r.artist).spotify_id)
    /\ r.spawned # 0 => r.upsert = "ok" /\ r.writes[1].op = "upsert"

C6_Witness ==
    /\ StaleNoTracks(artistCall)
    /\ Returned(artistCall)
    /\ artistCall.spawned # 0
    /\ task[artistCall.spawned].spotifyId = SpotifyId

\* C7: an invocation that has triggered the population has returned in the
\* same step, and what it returned (record, outcome of the write) is never
\* changed afterwards, whatever the population does.
C7_FireAndForget ==
  /\ [](artistCall.spawned # 0 => Returned(artistCall))
  /\ [][Returned(artistCall) /\ started' = started => artistCall' = artistCall]_vars

C7_Witness ==
    /\ Returned(artistCall)
    /\ artistCall.spawned # 0
    /\ task[artistCall.spawned].pc = "fetch"

\* C8: a found show younger than 24 hours is returned without a write; a
\* found show of 24 hours or more, or no show found, leads to an upsert of
\* the prepared record.
C8_ShowFreshness ==
    LET r == showCall IN
    /\ (ShowFound(r) /\ ShowAge(r) < ShowFreshHours * MsPerHour)
         => Returned(r) /\ r.writes = << >> /\ r.result = r.dbShow
    /\ (r.check = "ok" /\ ~(ShowFound(r) /\ ShowAge(r) < ShowFreshHours * MsPerHour))
         => Len(r.writes) >= 1 /\ r.writes[1].op = "upsert"

\* C9 as stated: a found artist of 7 days or more is never returned as is.
C9_StaleAtSevenDays ==
    (ArtistFound(artistCall) /\ ArtistAge(artistCall) >= ArtistFreshDays * MsPerDay)
      => UpsertAttempted(artistCall, artistCall.artistData)

\* C9 (amended): a found artist is returned as is only at an age of at most
\* 7 days; a found artist strictly older than 7 days leads to the upsert.
C9_StaleAfterSevenDays ==
    LET r == artistCall IN
    /\ r.ret = "L48" => ArtistFound(r) /\ ArtistAge(r) <= ArtistFreshDays * MsPerDay
    /\ (ArtistFound(r) /\ ArtistAge(r) > ArtistFreshDays * MsPerDay)
         => UpsertAttempted(r, r.artistData)

C9_Witness ==
    LET r == artistCall IN
    /\ ArtistFound(r)
    /\ ArtistAge(r) = ArtistFreshDays * MsPerDay + 1
    /\ IsSome(Val(r.existingArtist).stored_tracks)
    /\ IsSome(Val(r.existingArtist).spotify_id)
    /\ Val(r.artist).upcoming_shows = 0
    /\ UpsertAttempted(r, r.artistData)

\* C10: a found artist without stored tracks is never returned as is, at any
\* age; the upsert follows.
C10_NoTracksNeverFresh ==
    LET r == artistCall IN
    (ArtistFound(r) /\ ~IsSome(Val(r.existingArtist).stored_tracks))
      => r.ret # "L48" /\ UpsertAttempted(r, r.artistData)

C10_Witness ==
    LET r == artistCall IN
    /\ ArtistFound(r)
    /\ ~IsSome(Val(r.existingArtist).stored_tracks)
    /\ ArtistAge(r) = 0
    /\ IsSome(Val(r.existingArtist).spotify_id)
    /\ Val(r.artist).upcoming_shows = 0
    /\ UpsertAttempted(r, r.artistData)

\* the track lists an invocation of fetchAndStoreArtistTracks obtained whole
\* from one answer of the external catalog, as serialised for the store
FetchedSnapshots ==
  { JsonClone(Val(Val(task[t].tracksData).tracks)) :
      t \in { u \in Tasks : /\ IsSome(task[u].tracksData)
                             /\ IsSome(Val(task[u].tracksData).tracks) } }
\* the track lists a sync input can supply whole
SuppliedSnapshots ==
  { JsonClone(Val(Val(a).stored_tracks)) :
      a \in { b \in ArtistInputs : b # None /\ IsSome(Val(b).stored_tracks) } }
\* the snapshots the store held before the run
InitialSnapshots ==
  { Val(row).stored_tracks : row \in { r \in ArtistRows0 : r # None } }

\* C11: in every reachable state the stored track catalog of the artist is
\* absent, or the one the store held before the run, or the complete list of
\* one single answer of the external catalog, or the list one sync input
\* supplied whole; it is never a partial or mixed list.
C11_SnapshotIsWhole ==
    IsSome(artistRow) =>
      LET stored == Val(artistRow).stored_tracks IN
      \/ stored \in InitialSnapshots
      \/ IsSome(stored) /\ Val(stored) \in FetchedSnapshots \cup SuppliedSnapshots

\* a sync that found no stored tracks has supplied its tracks whole, a
\* population has written its catalog in two writes, and the store holds the
\* catalog, whole
C11_Witness ==
    /\ IsSome(artistRow)
    /\ ArtistFound(artistCall)
    /\ Val(artistCall.existingArtist).stored_tracks = None
    /\ artistCall.upsert = "ok"
    /\ Val(artistCall.artistData).stored_tracks = Some(InputTracks)
    /\ Val(artistRow).stored_tracks = Some(CatalogTracksLater)
    /\ \E t \in Tasks :
         /\ task[t].store = "ok" /\ task[t].update = "ok"
         /\ Val(task[t].tracksData).tracks = Some(CatalogTracksLater)

\* the external catalog has answered the invocation (it has not thrown)
CatalogAnswered(r) == r.fetches > 0 /\ r.pc # "fetch" /\ r.ret # "L185"
\* an answer without tracks: null, no track list, or an empty list
EmptyCatalogAnswer(tracksData) ==
  \/ tracksData = None
  \/ Val(tracksData).tracks = None
  \/ Val(tracksData).tracks = Some(<< >>)
StoredCatalogAbsent ==
  \/ artistRow = None
  \/ Val(artistRow).stored_tracks = None
  \/ Val(artistRow).stored_tracks = Some(<< >>)

\* C12: an invocation of fetchAndStoreArtistTracks whose catalog answer has no
\* tracks (null, no track list, empty list) returns null and has issued no
\* store write; its return leaves the artists row as it was; and a lookup
\* answered while the stored catalog is absent goes on to the external catalog.
C12_NoTracksNoWrite ==
  /\ [](\A t \in Tasks :
          (CatalogAnswered(task[t]) /\ EmptyCatalogAnswer(task[t].tracksData))
            => /\ task[t].pc = "done"
               /\ task[t].result = None
               /\ task[t].writes = << >>)
  /\ [][\A t \in Tasks :
          (task[t].pc = "fetch" /\ task'[t].pc = "done") => artistRow' = artistRow]_vars
  /\ [][\A t \in Tasks :
          (/\ task[t].pc = "getStored" /\ task'[t] # task[t]
           /\ LookupAnswered(task'[t]) /\ StoredCatalogAbsent)
            => task'[t].pc = "fetch" /\ task'[t].fetches = 1]_vars

\* one invocation got an empty list and returned null; the catalog is still
\* absent and another invocation is at the external catalog
C12_Witness ==
  /\ IsSome(artistRow) /\ Val(artistRow).stored_tracks = None
  /\ \E t, u \in Tasks :
       /\ task[t].pc = "done" /\ task[t].ret = "L155"
       /\ task[t].tracksData = Some([tracks |-> Some(<< >>)])
       /\ task[u].pc = "fetch"

\* a store write of the invocation has failed: an error result or an exception
\* of updateArtistStoredTracks or of the update request
StoreWriteFailed(r) ==
  r.store \in {"error", "throw"} \/ r.update \in {"error", "throw"}

\* C13: an invocation of fetchAndStoreArtistTracks that got a non-empty track
\* list from the external catalog and whose store write failed returns
\* exactly the list it fetched.
C13_FetchedTracksSurviveWriteFailure ==
  \A t \in Tasks :
    (task[t].pc = "done" /\ StoreWriteFailed(task[t]))
      => /\ task[t].result # None
         /\ task[t].result = Val(task[t].tracksData).tracks
         /\ Len(Val(task[t].result)) > 0

C13_Witness ==
  \E t \in Tasks :
    /\ task[t].pc = "done"
    /\ task[t].store = "throw"
    /\ task[t].result = Some(CatalogTracksLater)
    /\ IsSome(artistRow) /\ Val(artistRow).stored_tracks = None

\* the positions of the stored tracks whose id no setlist entry carries
AbsentFromSetlist(stored, sl) ==
  { i \in 1..Len(stored) : \A j \in 1..Len(sl) : sl[j].id # stored[i].id }
\* the place of position i among the positions S, counted from the front
PlaceIn(S, i) == Cardinality({ k \in S : k <= i })

\* C14: with a non-empty stored track list, availableTracks is exactly the
\* stored tracks whose id is absent from the setlist, in their stored order,
\* for every setlist the page reaches (the empty one included); so no
\* available track has its id in the setlist and every stored track is either
\* available or has its id in the setlist, never both.
C14_AvailableTracks ==
    Len(storedTracksData) > 0 =>
      LET available == availableTracks(storedTracksData, allTracksData.tracks, setlist)
          K == AbsentFromSetlist(storedTracksData, setlist)
      IN /\ Len(available) = Cardinality(K)
         /\ \A i \in K : available[PlaceIn(K, i)] = storedTracksData[i]
         /\ \A n \in 1..Len(available) : available[n].id \notin setlistIds(setlist)
         /\ \A i \in 1..Len(storedTracksData) :
              (\E n \in 1..Len(available) : available[n] = storedTracksData[i])
                # (storedTracksData[i].id \in setlistIds(setlist))

\* two songs added, one of them not first in the stored list: what is left is
\* the rest of the stored list in its order
C14_Witness ==
    /\ storedTracksData = << T1, T2, T3 >>
    /\ Len(setlist) = 2
    /\ setlistIds(setlist) = {"t1", "t2"}
    /\ lastOp.name = "addSong"
    /\ availableTracks(storedTracksData, allTracksData.tracks, setlist) = << T3 >>

\* this step is an invocation of handleAddSongClick
AddSongStep == lastOp'.name = "addSong" /\ (lastOp' # lastOp \/ setlist' # setlist)
\* this step is an invocation of handleVote
VoteStep == lastOp'.name = "vote" /\ (lastOp' # lastOp \/ setlist' # setlist)

\* C15: an invocation of addSong with an explicit track id that resolves
\* against the non-empty stored snapshot, and that the setlist does not hold
\* yet, appends an entry for that id with vote count 0 at the end of the
\* setlist, whatever track is selected; the entries before it are unchanged.
C15_ExplicitIdIsAdded ==
  [][(/\ AddSongStep
      /\ IsSome(lastOp'.trackId)
      /\ Len(storedTracksData) > 0
      /\ IsSome(find(storedTracksData, Val(lastOp'.trackId)))
      /\ Val(lastOp'.trackId) \notin setlistIds(setlist))
     => setlist' = Append(setlist, Entry(Val(lastOp'.trackId), 0))]_vars

\* C16: the setlist never holds two entries with the same song id, and an
\* invocation of addSong with the id of a song the setlist already holds
\* leaves the setlist (length, order, vote counts) as it was.
C16_AddSongIdempotent ==
  /\ [](\A i, j \in 1..Len(setlist) : setlist[i].id = setlist[j].id => i = j)
  /\ [][(/\ AddSongStep
         /\ IsSome(lastOp'.trackId)
         /\ Val(lastOp'.trackId) \in setlistIds(setlist))
        => setlist' = setlist]_vars

\* C17: a vote that succeeds raises the vote count of the entry of songId by
\* exactly 1; the setlist keeps its length, every entry its id and position,
\* and every other entry its vote count.
C17_VoteAddsOne ==
  [][(VoteStep /\ lastOp'.outcome = "ok")
     => /\ Len(setlist') = Len(setlist)
        /\ \A i \in 1..Len(setlist) :
             /\ setlist'[i].id = setlist[i].id
             /\ setlist'[i].votes =
                  IF setlist[i].id = lastOp'.songId
                  THEN setlist[i].votes + 1 ELSE setlist[i].votes]_vars

C17_Witness ==
    /\ lastOp = VoteOp("t1", "ok", FALSE)
    /\ setlist = << Entry("t2", 1), Entry("t1", 1) >>

\* C18: a vote of an anonymous session that has cast its quota is rejected
\* with QuotaExceeded: login() is triggered, no vote count and no counter
\* changes; a vote of an authenticated session is never rejected for quota,
\* whatever the session has cast before.
C18_AnonymousQuota ==
  /\ [][(VoteStep /\ ~isAuthenticated /\ anonymousVoteCount >= AnonymousQuota)
        => /\ lastOp'.outcome = "QuotaExceeded"
           /\ lastOp'.login
           /\ setlist' = setlist
           /\ anonymousVoteCount' = anonymousVoteCount]_vars
  /\ [][(VoteStep /\ isAuthenticated)
        => lastOp'.outcome # "QuotaExceeded" /\ ~lastOp'.login]_vars
  /\ [](anonymousVoteCount <= AnonymousQuota)

\* a session that used up its quota while anonymous has logged in and voted
C18_Witness ==
    /\ isAuthenticated
    /\ anonymousVoteCount = AnonymousQuota
    /\ lastOp.name = "vote"
    /\ lastOp.outcome = "ok"

\* C19: an invocation of addSong without an explicit id while no track is
\* selected does not call handleAddSong and changes nothing: setlist, vote
\* counts, available tracks, selection.
C19_AddSongWithoutTrackIsNoOp ==
  [][(AddSongStep /\ lastOp'.trackId = None /\ selectedTrack = None)
     => /\ lastOp'.arg = None
        /\ setlist' = setlist
        /\ availableTracks(storedTracksData', allTracksData'.tracks, setlist')
             = availableTracks(storedTracksData, allTracksData.tracks, setlist)
        /\ << storedTracksData, allTracksData, selectedTrack, isAuthenticated,
              anonymousVoteCount >>'
             = << storedTracksData, allTracksData, selectedTrack, isAuthenticated,
                  anonymousVoteCount >>]_vars

C19_Witness ==
    /\ lastOp = AddOp(None, None)
    /\ selectedTrack = None
    /\ storedTracksData = << T1, T2, T3 >>
    /\ Len(setlist) > 0

\* the invocation was given no record or a record without an id
GivenNoId(r, input) == r.pc # "idle" /\ (input = None \/ Val(input).id = None)
\* the invocation has returned null and issued no store request
ReturnedNullWithoutRequests(r) ==
  /\ r.pc = "done"
  /\ r.result = None
  /\ r.check = "none" /\ r.upsert = "none" /\ r.insert = "none"
  /\ r.writes = << >>

\* C20: saveShowToDatabase and saveArtistToDatabase given a missing record or
\* a record without an id return null and issue no store read and no store
\* write; no request ever carries a record without an id and no stored row is
\* without one.
C20_NoIdNoRecord ==
    /\ GivenNoId(showCall, showCall.show) => ReturnedNullWithoutRequests(showCall)
    /\ GivenNoId(artistCall, artistCall.artist) => ReturnedNullWithoutRequests(artistCall)
    /\ \A i \in 1..Len(showCall.writes) : showCall.writes[i].data.id # None
    /\ \A i \in 1..Len(artistCall.writes) : artistCall.writes[i].data.id # None
    /\ showRow # None => Val(showRow).id # None
    /\ artistRow # None => Val(artistRow).id # None

C20_Witness ==
    /\ showCall.pc = "done"
    /\ showCall.show = Some([id |-> None, date |-> None])
    /\ showCall.result = None
    /\ showCall.ret = "L12"

\* ---------------------------------------------------------------- C21
\* a date the page cannot show: absent, or a value that parses to no date
DateAbsentOrInvalid(date) == date = None \/ Val(date) \in { "", BadDate, SymbolValue }
\* the effect ran on the show the page holds
MetadataSettled ==
  /\ ~effectPending
  /\ IsSome(showDetails.show)
  /\ ~showDetails.isLoadingShow
\* every title up to the display date
TitleStems ==
  { "TheSet | " \o a \o " at " \o v \o " in " \o l \o " | " :
      a \in { "Artist", "Muse" }, v \in { "Venue", "The Hall" },
      l \in { "Location", "Austin", "TX", "Austin, TX" } }
\* every description around the display date
DescriptionStems ==
  { "Vote on " \o a \o "'s setlist for their show at " \o v \o " in " \o l \o " on " :
      a \in { "Artist", "Muse" }, v \in { "Venue", "The Hall" },
      l \in { "Location", "Austin", "TX", "Austin, TX" } }
ShowsDate(metadata, date) ==
  /\ \E stem \in TitleStems : metadata.title = stem \o date
  /\ \E stem \in DescriptionStems :
       metadata.description = stem \o date \o ". Influence what songs they'll play live!"

\* C21: for a loaded show whose date is absent or no valid date, the display
\* date the effect derives is "TBD": the title and the description it sets
\* end in it, or the effect set the fallback metadata; no run of the effect
\* ends in an error.
C21_AbsentDateIsTBD ==
  /\ metaEffect.outcome \in { "none", "skipped", "set", "fallback" }
  /\ (MetadataSettled /\ DateAbsentOrInvalid(Val(showDetails.show).date))
       => /\ metaEffect.formattedDate = Some("TBD")
          /\ \/ metaEffect.outcome = "set" /\ ShowsDate(documentMetadata, "TBD")
             \/ metaEffect.outcome = "fallback" /\ documentMetadata = FallbackMetadata

\* a loaded show without a date got a title that ends in TBD
C21_Witness ==
  /\ MetadataSettled
  /\ Val(showDetails.show).date = None
  /\ metaEffect = [outcome |-> "set", formattedDate |-> Some("TBD")]
  /\ documentMetadata.title = "TheSet | Muse at The Hall in Austin, TX | TBD"

\* ---------------------------------------------------------------- C22
\* the store applies a write of the invocation that goes from r to r2
WriteApplied(r, r2) ==
  /\ r.pc \in { "upsert", "insert" }
  /\ r2.pc = "done"
  /\ "ok" \in { r2.upsert, r2.insert }
\* the row the store holds is less than 24 hours old
StoredShowIsFresh ==
  /\ IsSome(showRow)
  /\ now - lastUpdated(Val(showRow)) < ShowFreshHours * MsPerHour

\* C22: no write is applied to the row of a show while the row the store
\* holds is fresh, whatever the interleaving of overlapping invocations and
\* whether the lookup succeeded or not.
C22_NoWriteOnFreshShow ==
  [][ (WriteApplied(showCall, showCall') \/ WriteApplied(otherShowCall, otherShowCall'))
        => ~StoredShowIsFresh ]_vars

\* the same for invocations whose lookup was answered without an error
C22_NoWriteOnFreshShowAfterGoodLookup ==
  [][ ( \/ WriteApplied(showCall, showCall') /\ showCall.check = "ok"
        \/ WriteApplied(otherShowCall, otherShowCall') /\ otherShowCall.check = "ok" )
        => ~StoredShowIsFresh ]_vars

\* ---------------------------------------------------------------- C23
\* saveArtistToDatabase was called with an artist that has a catalog id and
\* carries no tracks, while the store holds no snapshot for the artist
PopulationDue ==
  /\ artistCall.pc = "check"
  /\ IsSome(Val(artistCall.artist).spotify_id)
  /\ ~IsSome(Val(artistCall.artist).stored_tracks)
  /\ (IsSome(artistRow) => ~IsSome(Val(artistRow).stored_tracks))
\* the snapshot of the store is the list a population fetched
Populated ==
  /\ IsSome(artistRow)
  /\ \E t \in Tasks :
       /\ CatalogAnswered(task[t])
       /\ ~EmptyCatalogAnswer(task[t].tracksData)
       /\ Val(artistRow).stored_tracks = Some(JsonClone(Val(Val(task[t].tracksData).tracks)))
\* the store refused a write or did not answer the stored-tracks lookup, or
\* the catalog threw or answered without tracks
AssumptionBroken ==
  \/ artistCall.upsert \notin { "none", "ok" }
  \/ \E t \in Tasks :
       \/ task[t].store \in { "error", "throw" }
       \/ task[t].update \in { "error", "throw" }
       \/ ~LookupAnswered(task[t])
       \/ task[t].pc = "done" /\ task[t].ret \in { "L155", "L185" }
\* a later call carried a snapshot of its own, which the store holds
SnapshotSupplied ==
  /\ IsSome(artistRow)
  /\ IsSome(Val(artistRow).stored_tracks)
  /\ Val(Val(artistRow).stored_tracks) \in SuppliedSnapshots

\* C23: once saveArtistToDatabase is called for an artist with a catalog id
\* and no stored tracks, the snapshot of the store eventually is the list a
\* population fetched, unless the store refuses a write or fails the
\* stored-tracks lookup, or the catalog answers without tracks (or a later
\* call supplies a snapshot itself).
C23_EventualPopulation ==
  PopulationDue ~> (Populated \/ AssumptionBroken \/ SnapshotSupplied)

\* the population a call triggered stored the list it fetched
C23_Witness ==
  /\ artistCall.pc = "done"
  /\ artistCall.upsert = "ok"
  /\ artistCall.spawned # 0
  /\ task[artistCall.spawned].ret = "L178"
  /\ task[artistCall.spawned].store = "ok"
  /\ task[artistCall.spawned].update = "ok"
  /\ ~AssumptionBroken
  /\ ~SnapshotSupplied
  /\ Populated

=============================================================================
